---- MODULE Spec2Model ----
(***************************************************************************)
(* The card scanner of catchthemall: the /api/scan handler of              *)
(* scanner_app.py (OCR text signals, multi-factor scoring, ranking and the *)
(* image tie-break through the file temp_query_card.png) over the catalog  *)
(* and the search index that pokemon_clip_embeddings.py loads and builds.  *)
(*                                                                         *)
(* Text is a sequence of one-character strings.  A vector is a pair of     *)
(* integers of length 5 (norm squared 25): the embeddings are normalised   *)
(* to one length (process_image), so the cosine similarity of two vectors  *)
(* is their dot product divided by 25.                                     *)
(***************************************************************************)
EXTENDS Integers, Sequences, FiniteSets, TLC

\* Number of scan requests the threaded server handles at the same time.
NumScans == 2

Threads == 1..NumScans

----------------------------------------------------------------------------
\* Characters and strings

DigitSeq == <<"0", "1", "2", "3", "4", "5", "6", "7", "8", "9">>
LowerSeq == <<"a", "b", "c", "d", "e", "f", "g", "h", "i", "j", "k", "l", "m",
              "n", "o", "p", "q", "r", "s", "t", "u", "v", "w", "x", "y", "z">>
UpperSeq == <<"A", "B", "C", "D", "E", "F", "G", "H", "I", "J", "K", "L", "M",
              "N", "O", "P", "Q", "R", "S", "T", "U", "V", "W", "X", "Y", "Z">>

Range(s) == {s[i] : i \in DOMAIN s}

Digits == Range(DigitSeq)
Lowers == Range(LowerSeq)
Uppers == Range(UpperSeq)
\* \s of the regular expression
Whitespace == {" ", "\t", "\n"}

\* str.lower() of one character
Lower(c) ==
  IF c \in Uppers THEN LowerSeq[CHOOSE i \in DOMAIN UpperSeq : UpperSeq[i] = c]
  ELSE c

\* [a-zA-Z0-9]
IsAlnum(c) == c \in Digits \cup Lowers \cup Uppers

\* Mutant of clean_text: the substitution without .lower()
CleanKeepingCase(text) == SelectSeq(text, IsAlnum)

\* clean_text: re.sub(r'[^a-zA-Z0-9]', '', text).lower()
clean_text(text) ==
  LET kept == SelectSeq(text, IsAlnum)
  IN  [i \in DOMAIN kept |-> Lower(kept[i])]

\* Python's  s in t  for strings: s occurs in t as a contiguous substring
\* (the empty string occurs in every string).
StrIn(s, t) ==
  \E i \in 0..(Len(t) - Len(s)) : SubSeq(t, i + 1, i + Len(s)) = s

\* str(n) of a non-negative int: decimal, no leading zeros
RECURSIVE str_int(_)
str_int(n) ==
  IF n < 10 THEN <<DigitSeq[n + 1]>>
  ELSE str_int(n \div 10) \o <<DigitSeq[(n % 10) + 1]>>

\* " ".join(spans)
RECURSIVE join(_)
join(spans) ==
  IF spans = <<>> THEN <<>>
  ELSE IF Len(spans) = 1 THEN spans[1]
  ELSE spans[1] \o <<" ">> \o join(Tail(spans))

\* First position >= i of text that does not hold a character of cls
\* (Len(text) + 1 when there is none): the end of a greedy cls* from i.
RECURSIVE SkipWhile(_, _, _)
SkipWhile(text, i, cls) ==
  IF i <= Len(text) /\ text[i] \in cls THEN SkipWhile(text, i + 1, cls) ELSE i

\* Mutant of MatchAt: the pattern (\d+)/(\d+), without the white space
MatchAtNoSpace(text, i) ==
  LET e1 == SkipWhile(text, i, Digits)
      e2 == SkipWhile(text, e1 + 1, Digits)
  IN  IF e1 > i /\ e1 <= Len(text) /\ text[e1] = "/" /\ e2 > e1 + 1
      THEN <<SubSeq(text, i, e1 - 1), SubSeq(text, e1 + 1, e2 - 1), e2>>
      ELSE <<>>

\* One match attempt of (\d+)\s*/\s*(\d+) at position i: <<>> when it does
\* not match there, else <<numerator, denominator, position after the match>>.
\* The greedy runs never need backtracking: a shorter \d+ or \s* is followed
\* by a character of the same class, which the next element cannot match.
MatchAt(text, i) ==
  LET e1 == SkipWhile(text, i, Digits)
      s1 == SkipWhile(text, e1, Whitespace)
      s2 == SkipWhile(text, s1 + 1, Whitespace)
      e2 == SkipWhile(text, s2, Digits)
  IN  IF e1 > i /\ s1 <= Len(text) /\ text[s1] = "/" /\ e2 > s2
      THEN <<SubSeq(text, i, e1 - 1), SubSeq(text, s2, e2 - 1), e2>>
      ELSE <<>>

\* re.findall(r'(\d+)\s*/\s*(\d+)', text) scanning from position i: the
\* leftmost match, then the next one after its end.
RECURSIVE FindAllFrom(_, _)
FindAllFrom(text, i) ==
  IF i > Len(text) THEN <<>>
  ELSE LET m == MatchAt(text, i)
       IN  IF m = <<>> THEN FindAllFrom(text, i + 1)
           ELSE <<[num |-> m[1], total |-> m[2]]>> \o FindAllFrom(text, m[3])

findall(text) == FindAllFrom(text, 1)

----------------------------------------------------------------------------
\* Scoring (scan_card, stage 3).  A card is a catalog record
\* [id, name, number, printedTotal, attacks]: number is the string the catalog
\* holds, printedTotal the integer of the card's set, attacks the names of the
\* card's attacks (empty when the card has no 'attacks' key).

\* Mutant of get_full_card_details: a default card (the first of the
\* catalog) instead of None for an id the catalog does not hold.
CardDetailsOrFirst(card_id, cards) ==
  IF \E k \in DOMAIN cards : cards[k].id = card_id
  THEN CHOOSE k \in DOMAIN cards :
         /\ cards[k].id = card_id
         /\ \A j \in 1..(k - 1) : cards[j].id # card_id
  ELSE IF cards = <<>> THEN 0 ELSE 1

\* get_full_card_details: the position in cards of the first card with this
\* id, 0 for None.
get_full_card_details(card_id, cards) ==
  IF \E k \in DOMAIN cards : cards[k].id = card_id
  THEN CHOOSE k \in DOMAIN cards :
         /\ cards[k].id = card_id
         /\ \A j \in 1..(k - 1) : cards[j].id # card_id
  ELSE 0

\* Check 1: the loop over card_number_matches, which breaks at the first
\* fraction equal to (str(number), str(printedTotal)).
RECURSIVE NumberLoop(_, _)
NumberLoop(card, matches) ==
  IF matches = <<>> THEN 0
  ELSE IF card.number = Head(matches).num
          /\ str_int(card.printedTotal) = Head(matches).total
       THEN 100
       ELSE NumberLoop(card, Tail(matches))

\* Mutant of NumberScore: the loop without its break (+100 for every
\* fraction that matches).
RECURSIVE NumberScoreNoBreak(_, _)
NumberScoreNoBreak(card, matches) ==
  IF matches = <<>> THEN 0
  ELSE (IF card.number = Head(matches).num
           /\ str_int(card.printedTotal) = Head(matches).total
        THEN 100 ELSE 0) + NumberScoreNoBreak(card, Tail(matches))

\* A digit string without its leading zeros
RECURSIVE StripZeros(_)
StripZeros(digits) ==
  IF Len(digits) > 1 /\ Head(digits) = "0" THEN StripZeros(Tail(digits))
  ELSE digits

\* Mutant of NumberScore: the numbers compared as integers, so that leading
\* zeros do not count.
RECURSIVE NumberScoreAsInt(_, _)
NumberScoreAsInt(card, matches) ==
  IF matches = <<>> THEN 0
  ELSE IF StripZeros(card.number) = StripZeros(Head(matches).num)
          /\ str_int(card.printedTotal) = StripZeros(Head(matches).total)
       THEN 100
       ELSE NumberScoreAsInt(card, Tail(matches))

NumberScore(card, matches) == NumberLoop(card, matches)

\* Mutant of NameLoop: a cleaned name that is empty matches no fragment.
RECURSIVE NameLoopNonEmpty(_, _)
NameLoopNonEmpty(card_name_clean, texts) ==
  IF texts = <<>> \/ card_name_clean = <<>> THEN 0
  ELSE IF Len(Head(texts)) >= 4
          /\ (StrIn(Head(texts), card_name_clean) \/ StrIn(card_name_clean, Head(texts)))
       THEN 20
       ELSE NameLoopNonEmpty(card_name_clean, Tail(texts))

\* Check 2: the loop over detected_texts, which breaks at the first fragment
\* of length >= 4 that is in the cleaned name or holds it.
RECURSIVE NameLoop(_, _)
NameLoop(card_name_clean, texts) ==
  IF texts = <<>> THEN 0
  ELSE IF Len(Head(texts)) >= 4
          /\ (StrIn(Head(texts), card_name_clean) \/ StrIn(card_name_clean, Head(texts)))
       THEN 20
       ELSE NameLoop(card_name_clean, Tail(texts))

\* Mutant of NameScore: the check without the test len(text) >= 4.
NameScoreAnyLength(card, texts) ==
  IF \E k \in DOMAIN texts :
       \/ StrIn(texts[k], clean_text(card.name))
       \/ StrIn(clean_text(card.name), texts[k])
  THEN 20 ELSE 0

NameScore(card, texts) == NameLoop(clean_text(card.name), texts)

\* Mutant of AttackLoop: an attack is looked for in the first fragment only.
RECURSIVE AttackFirstFragmentOnly(_, _)
AttackFirstFragmentOnly(attacks, texts) ==
  IF attacks = <<>> THEN 0
  ELSE LET attack_name_clean == clean_text(Head(attacks))
           hit == /\ attack_name_clean # <<>>
                  /\ texts # <<>>
                  /\ StrIn(attack_name_clean, texts[1])
       IN  (IF hit THEN 10 ELSE 0) + AttackFirstFragmentOnly(Tail(attacks), texts)

\* Check 3: +10 for every attack whose cleaned name is not empty and is in
\* some fragment.
RECURSIVE AttackLoop(_, _)
AttackLoop(attacks, texts) ==
  IF attacks = <<>> THEN 0
  ELSE LET attack_name_clean == clean_text(Head(attacks))
           hit == /\ attack_name_clean # <<>>
                  /\ \E k \in DOMAIN texts : StrIn(attack_name_clean, texts[k])
       IN  (IF hit THEN 10 ELSE 0) + AttackLoop(Tail(attacks), texts)

\* Mutant of AttackScore: the attack check scored once, like the name check.
AttackScoreOnce(card, texts) ==
  IF AttackLoop(card.attacks, texts) > 0 THEN 10 ELSE 0

AttackScore(card, texts) == AttackLoop(card.attacks, texts)

\* The score one resolved card gets in the sweep.
CardScore(card, texts, matches) ==
  NumberScore(card, matches) + NameScore(card, texts) + AttackScore(card, texts)

\* The score of index entry i in the sweep: 0 for an entry whose card_id
\* resolves to no card (it is skipped).
EntryScore(cards, metadata, i, texts, matches) ==
  LET k == get_full_card_details(metadata[i].card_id, cards)
  IN  IF k = 0 THEN 0 ELSE CardScore(cards[k], texts, matches)

\* Mutant of Sweep: the sweep without the test score > 0.
RECURSIVE SweepKeepingZeros(_, _, _, _, _)
SweepKeepingZeros(cards, metadata, texts, matches, i) ==
  IF i > Len(metadata) THEN <<>>
  ELSE (IF get_full_card_details(metadata[i].card_id, cards) # 0
        THEN <<[score |-> EntryScore(cards, metadata, i, texts, matches),
                index |-> i]>>
        ELSE <<>>)
         \o SweepKeepingZeros(cards, metadata, texts, matches, i + 1)

\* The sweep over search_index['metadata'] from position i on: an entry
\* scoring 0 (skipped, or no check hit) is not appended.  index is the
\* position in the search index (1-based here, 0-based in Python).
RECURSIVE Sweep(_, _, _, _, _)
Sweep(cards, metadata, texts, matches, i) ==
  IF i > Len(metadata) THEN <<>>
  ELSE LET score == EntryScore(cards, metadata, i, texts, matches)
       IN  (IF score > 0 THEN <<[score |-> score, index |-> i]>> ELSE <<>>)
             \o Sweep(cards, metadata, texts, matches, i + 1)

\* list.sort(key=score, reverse=True): stable, so equal scores keep the order
\* of the sweep.
RECURSIVE InsertDesc(_, _)
InsertDesc(sorted, c) ==
  IF sorted = <<>> THEN <<c>>
  ELSE IF Head(sorted).score >= c.score
       THEN <<Head(sorted)>> \o InsertDesc(Tail(sorted), c)
       ELSE <<c>> \o sorted

\* Mutant of SortDesc: the sort without reverse=True (ascending scores).
RECURSIVE SortAscending(_)
SortAscending(scores) ==
  IF scores = <<>> THEN <<>>
  ELSE LET rest == SortAscending(Tail(scores))
           low  == SelectSeq(rest, LAMBDA c : c.score < Head(scores).score)
           high == SelectSeq(rest, LAMBDA c : c.score >= Head(scores).score)
       IN  low \o <<Head(scores)>> \o high

RECURSIVE SortDesc(_)
SortDesc(scores) ==
  IF scores = <<>> THEN <<>>
  ELSE InsertDesc(SortDesc(SubSeq(scores, 1, Len(scores) - 1)), scores[Len(scores)])

\* card_scores after stage 4's sort
RankedScores(cards, metadata, texts, matches) ==
  SortDesc(Sweep(cards, metadata, texts, matches, 1))

\* best_candidates: the candidates with card_scores[0]['score']
BestCandidates(ranked) ==
  IF ranked = <<>> THEN <<>>
  ELSE SelectSeq(ranked, LAMBDA c : c.score = ranked[1].score)

----------------------------------------------------------------------------
\* Stage 4: the tie-break and the response

\* A failed embedding (process_image returns None)
None == <<>>

Dot(u, v) == u[1] * v[1] + u[2] * v[2]

\* similarities = 1 - cdist(query_embedding, tiebreaker_embeddings, 'cosine'),
\* times 25: the stored vector of candidate k is the index vector at the
\* candidate's index position.
Similarities(query_embedding, embeddings, best_candidates) ==
  [k \in DOMAIN best_candidates |->
     Dot(query_embedding, embeddings[best_candidates[k].index])]

\* Mutant of argmax: the last position holding the maximum
ArgmaxLast(similarities) ==
  CHOOSE k \in DOMAIN similarities :
    /\ \A j \in DOMAIN similarities : similarities[j] <= similarities[k]
    /\ \A j \in (k + 1)..Len(similarities) : similarities[j] < similarities[k]

\* np.argmax: the first position holding the maximum
argmax(similarities) ==
  CHOOSE k \in DOMAIN similarities :
    /\ \A j \in DOMAIN similarities : similarities[j] <= similarities[k]
    /\ \A j \in 1..(k - 1) : similarities[j] < similarities[k]

\* The responses of the handler.  metadata is the position in all_cards of
\* the card returned (0 when the response carries none).
Match(k, score, method) ==
  [status |-> 200, error |-> "", metadata |-> k, ocr_confirmed |-> TRUE,
   score |-> score, match_method |-> method]
Failure(status, error) ==
  [status |-> status, error |-> error, metadata |-> 0, ocr_confirmed |-> FALSE,
   score |-> 0, match_method |-> ""]
NoImage        == Failure(400, "No image file provided")
NotInitialized == Failure(500, "Server not initialized properly. Check logs.")
NotFound       == Failure(404, "Could not find a matching card.")
\* Mutant of InternalError: the except clause answering as a scan that found
\* nothing.
ErrorAsNotFound == Failure(404, "Could not find a matching card.")
InternalError  == Failure(500, "An internal error occurred")
NoResponse     == Failure(0, "")

\* if final_match_card: ... else: 404
Respond(final_match_card, top_score, match_method) ==
  IF final_match_card # 0 THEN Match(final_match_card, top_score, match_method)
  ELSE NotFound

\* The branch len(best_candidates) == 1
DirectWin(cards, metadata, best_candidates) ==
  Respond(get_full_card_details(metadata[best_candidates[1].index].card_id, cards),
          best_candidates[1].score, "Scoring")

\* The branch after the embedding call returned query_embedding
TieBreak(cards, index, best_candidates, query_embedding) ==
  IF query_embedding # None
  THEN LET best_match_index ==
             argmax(Similarities(query_embedding, index.embeddings, best_candidates))
       IN  Respond(get_full_card_details(
                     index.metadata[best_candidates[best_match_index].index].card_id,
                     cards),
                   best_candidates[1].score, "Scoring with Image Tie-break")
  ELSE Respond(0, best_candidates[1].score, "Scoring")

----------------------------------------------------------------------------
\* The data of the model: catalog cards, search indexes, scan requests

Abra1 ==
  [id |-> "s1-04", name |-> <<"A", "b", "r", "a">>, number |-> <<"0", "4">>, printedTotal |-> 12,
   attacks |-> <<>>]
Abra2 ==
  [id |-> "s2-4", name |-> <<"A", "b", "r", "a">>, number |-> <<"4">>, printedTotal |-> 12,
   attacks |-> <<>>]
Mew ==
  [id |-> "s1-7", name |-> <<"M", "e", "w">>, number |-> <<"7">>, printedTotal |-> 12,
   attacks |-> <<<<"P", "s", "y">>, <<"P", "o", "u", "n", "d">>>>]
Onix ==
  [id |-> "s2-7", name |-> <<"O", "n", "i", "x">>, number |-> <<"7">>, printedTotal |-> 12,
   attacks |-> <<<<"!", "?">>, <<"P", "o", "u", "n", "d">>>>]
Unnamed ==
  [id |-> "s3-1", name |-> <<"?">>, number |-> <<"1">>, printedTotal |-> 3,
   attacks |-> <<>>]

\* all_cards.json as loaded: card ids are unique.  CatalogB is a later
\* download: the card s2-4 is gone, s2-7 and s3-1 (whose name cleans to the
\* empty string) are new.
CatalogA == <<Abra1, Abra2, Mew>>
CatalogB == <<Abra1, Mew, Onix, Unnamed>>

\* A search index as generate_embeddings and create_search_index write it:
\* metadata and embeddings of one length, entry i of both from one image
\* file; card_id is "" for a file that card_lookup does not know, and the ids
\* that are not "" are pairwise distinct (card_lookup is keyed by file name).
\* The index is not rebuilt with the catalog, so it may name cards the
\* catalog does not hold.
IndexEntry(card_id) == [card_id |-> card_id]
IndexA ==
  [metadata   |-> <<IndexEntry("s1-04"), IndexEntry(""), IndexEntry("s2-4"),
                    IndexEntry("s1-7"), IndexEntry("s2-7")>>,
   embeddings |-> <<<<3, 4>>, <<4, 3>>, <<-3, 4>>, <<0, 5>>, <<5, 0>>>>]
IndexB ==
  [metadata   |-> <<IndexEntry("s2-4"), IndexEntry("s3-1"), IndexEntry("s2-7"),
                    IndexEntry("s1-7")>>,
   embeddings |-> <<<<4, 3>>, <<-3, 4>>, <<5, 0>>, <<0, 5>>>>]

\* The server states after start-up: the catalog and the index that were
\* loaded.
Servers ==
  { [all_cards |-> CatalogA, search_index |-> IndexA],
    [all_cards |-> CatalogA, search_index |-> IndexB],
    [all_cards |-> CatalogB, search_index |-> IndexB] }

\* A scan request: whether the form holds a card_image file, whether the
\* image decodes, what the OCR reader reads on it (its spans), and what the
\* embedding model returns for the image (None when it fails).
Request(has_file, decodable, ocr, vec) ==
  [has_file |-> has_file, decodable |-> decodable, ocr |-> ocr, vec |-> vec]

RequestTable == <<
  Request(TRUE, TRUE, <<<<"A", "b", "r", "a">>, <<"0", "4", "/", "1", "2">>>>, <<5, 0>>),
  Request(TRUE, TRUE, <<<<"A", "B", "R", "A", "!">>>>, <<-4, 3>>),
  Request(TRUE, TRUE, <<<<"A", "b", "r", "a">>>>, <<5, 0>>),
  Request(TRUE, TRUE, <<<<"A", "b", "r", "a">>>>, None),
  Request(TRUE, TRUE, <<<<"M", "e", "w", "!">>, <<"A", "b", "r">>>>, <<5, 0>>),
  Request(TRUE, TRUE, <<<<"4", " ", "/", " ", "1", "2">>, <<"4", "/", "1", "2">>>>, <<0, 5>>),
  Request(TRUE, TRUE, <<<<"P", "s", "y", "s", "h", "o", "c", "k">>, <<"P", "o", "u", "n", "d", " ", "7", "/", " ", "1", "2">>>>, <<0, 5>>),
  Request(TRUE, TRUE, <<<<"7", "/", "1", "2">>>>, <<5, 0>>),
  Request(TRUE, TRUE, <<<<"M", "e", "w", "t", "w", "o">>, <<"P", "s", "y">>>>, <<0, 5>>),
  Request(TRUE, FALSE, <<>>, None),
  Request(FALSE, FALSE, <<>>, None),
  Request(TRUE, TRUE, <<<<"a", "b", "r", "a", ".">>>>, <<0, 5>>),
  Request(TRUE, TRUE, <<<<"0", "4", "9", "/", "1", "8", "2">>,
                        <<"4", "9", " ", "/", " ", "1", "8", "2">>,
                        <<"4", "9", "/", " ", "1", "8", "2">>>>, <<5, 0>>)
>>

\* The images of the requests are named by their position in RequestTable.
Requests == DOMAIN RequestTable

----------------------------------------------------------------------------
\* The server

VARIABLES
  initialized,          \* all([clip_processor, search_index, ocr_reader])
  all_cards,            \* clip_processor.all_cards, the catalog
  search_index,         \* the search index loaded at start-up
  temp_file,            \* temp_query_card.png in the server's working
                        \* directory: the image it holds, 0 when absent
  pc,                   \* per scan thread: where its handler is
  req,                  \* per scan thread: the request it handles (0: none yet)
  detected_texts,       \* the handler's locals, per scan thread
  card_number_matches,
  card_scores,
  best_candidates,
  query_embedding,
  response              \* per scan thread: the response of its last scan

\* The offline pipeline (pokemon_downloader.py, pokemon_clip_embeddings.py)
VARIABLES
  card_data,            \* the cards the API returned, as all_cards.json holds them
  images_dir,           \* images/: file name -> what embedding the image gives
  card_lookup,          \* processor.card_lookup: file name -> card
  run,                  \* where the pipeline is
  pos,                  \* generate_embeddings: i of the enumerate loop
  start_idx,            \* generate_embeddings: the resume offset
  embeddings_list,      \* generate_embeddings: the lists embeddings and
  metadata_list,        \* metadata in memory
  processed_files,
  checkpoint_file,      \* embeddings/checkpoint_*.pkl
  embeddings_file,      \* embeddings/embeddings_*.pkl
  metadata_file,        \* embeddings/metadata_*.json
  index_file,           \* embeddings/search_index_*.pkl
  search                \* the last call of search_similar_cards and its result

offline == <<card_data, images_dir, card_lookup, run, pos, start_idx,
             embeddings_list, metadata_list, processed_files, checkpoint_file,
             embeddings_file, metadata_file, index_file, search>>

server == <<initialized, all_cards, search_index>>
locals == <<req, detected_texts, card_number_matches, card_scores,
            best_candidates, query_embedding, response>>
vars   == <<initialized, all_cards, search_index, temp_file, pc, req,
            detected_texts, card_number_matches, card_scores,
            best_candidates, query_embedding, response, offline>>

\* A file that is not there, and the files of the pipeline
NoFile == [exists |-> FALSE]
Checkpoint(e, m, p) ==
  [exists |-> TRUE, readable |-> TRUE, embeddings |-> e, metadata |-> m,
   processed_files |-> p]
EmbeddingsFile(e) == [exists |-> TRUE, embeddings |-> e]
MetadataFile(m) == [exists |-> TRUE, metadata |-> m]
IndexFile(e, m) == [exists |-> TRUE, embeddings |-> e, metadata |-> m]
NoSearch == [called |-> FALSE]

\* Nothing of the pipeline has run: no image, no file, nothing in memory.
OfflineAtRest ==
  /\ images_dir = <<>>
  /\ card_lookup = <<>>
  /\ run = "download"
  /\ pos = 0
  /\ start_idx = 0
  /\ embeddings_list = <<>>
  /\ metadata_list = <<>>
  /\ processed_files = {}
  /\ checkpoint_file = NoFile
  /\ embeddings_file = NoFile
  /\ metadata_file = NoFile
  /\ index_file = NoFile
  /\ search = NoSearch

\* sorted(list(set(cleaned)), key=len, reverse=True): the set's iteration
\* order is not fixed, the sort is stable, so every order of the set with
\* lengths descending can come out.
RankedOrders(fragments) ==
  { order \in [1..Cardinality(fragments) -> fragments] :
      /\ \A i, j \in DOMAIN order : i # j => order[i] # order[j]
      /\ \A i, j \in DOMAIN order : i < j => Len(order[i]) >= Len(order[j]) }

\* The state after module load: the models, the catalog and the index were
\* loaded, or loading failed and everything is None.
Init ==
  /\ \/ /\ initialized = TRUE
        /\ \E s \in Servers :
             /\ all_cards = s.all_cards
             /\ search_index = s.search_index
     \/ /\ initialized = FALSE
        /\ all_cards = <<>>
        /\ search_index = [metadata |-> <<>>, embeddings |-> <<>>]
  /\ card_data = <<>>
  /\ OfflineAtRest
  /\ temp_file = 0
  /\ pc = [t \in Threads |-> "idle"]
  /\ req = [t \in Threads |-> 0]
  /\ detected_texts = [t \in Threads |-> <<>>]
  /\ card_number_matches = [t \in Threads |-> <<>>]
  /\ card_scores = [t \in Threads |-> <<>>]
  /\ best_candidates = [t \in Threads |-> <<>>]
  /\ query_embedding = [t \in Threads |-> None]
  /\ response = [t \in Threads |-> NoResponse]

\* Thread t's handler goes on at next_pc with these locals.
Continue(t, r, texts, matches, ranked, best, next_pc, resp) ==
  /\ pc' = [pc EXCEPT ![t] = next_pc]
  /\ req' = [req EXCEPT ![t] = r]
  /\ detected_texts' = [detected_texts EXCEPT ![t] = texts]
  /\ card_number_matches' = [card_number_matches EXCEPT ![t] = matches]
  /\ card_scores' = [card_scores EXCEPT ![t] = ranked]
  /\ best_candidates' = [best_candidates EXCEPT ![t] = best]
  /\ query_embedding' = [query_embedding EXCEPT ![t] = None]
  /\ response' = [response EXCEPT ![t] = resp]

\* Stages 1 to 4 up to best_candidates, for one order of the fragments: the
\* handler's locals after ranking.
Scored(cards, index, request, texts) ==
  LET matches == findall(join(request.ocr))
      ranked  == RankedScores(cards, index.metadata, texts, matches)
  IN  [detected_texts |-> texts, card_number_matches |-> matches,
       card_scores |-> ranked, best_candidates |-> BestCandidates(ranked)]

\* Every outcome of stages 1 to 4 for a request on a server (one per order
\* of the fragments).
ScoredOutcomes(cards, index, request) ==
  { Scored(cards, index, request, texts) :
      texts \in RankedOrders({clean_text(span) : span \in Range(request.ocr)}) }

\* ScoredOutcomes tabulated over the servers and requests of the model
ScoredTable ==
  [s \in Servers |->
     [r \in Requests |-> ScoredOutcomes(s.all_cards, s.search_index, RequestTable[r])]]

\* Stage 4 after ranking: where the handler goes with the locals o, and the
\* response when it answers at once (no candidate: 404; a single best
\* candidate: the match; a tie: on to the tie-break).
AfterRanking(cards, index, o) ==
  IF o.card_scores = <<>>
  THEN [pc |-> "done", response |-> NotFound]
  ELSE IF Len(o.best_candidates) = 1
  THEN [pc |-> "done",
        response |-> DirectWin(cards, index.metadata, o.best_candidates)]
  ELSE [pc |-> "save", response |-> NoResponse]

\* Mutant of Scan: a scan whose image does not decode drops the loaded
\* models, so that the server is left uninitialised.
ScanLosingModels(t, r) ==
  /\ pc[t] \in {"idle", "done"}
  /\ LET request == RequestTable[r]
     IN  IF ~request.has_file
         THEN /\ Continue(t, r, <<>>, <<>>, <<>>, <<>>, "done", NoImage)
              /\ UNCHANGED initialized
         ELSE IF ~initialized
         THEN /\ Continue(t, r, <<>>, <<>>, <<>>, <<>>, "done", NotInitialized)
              /\ UNCHANGED initialized
         ELSE IF ~request.decodable
         THEN /\ Continue(t, r, <<>>, <<>>, <<>>, <<>>, "done", InternalError)
              /\ initialized' = FALSE
         ELSE /\ \E o \in ScoredTable[[all_cards |-> all_cards,
                                       search_index |-> search_index]][r] :
                   LET next == AfterRanking(all_cards, search_index, o)
                   IN  Continue(t, r, o.detected_texts, o.card_number_matches,
                                o.card_scores, o.best_candidates, next.pc,
                                next.response)
              /\ UNCHANGED initialized
  /\ UNCHANGED <<all_cards, search_index, temp_file, offline>>

\* scan_card from the request's arrival to its response or, on a score tie,
\* to the tie-break: the checks of the request and the server, decoding, OCR
\* (stages 1 and 2), the sweep (stage 3), ranking and the direct win (stage 4).
\* Everything here is local to the request or read-only.
Scan(t, r) ==
  /\ pc[t] \in {"idle", "done"}
  /\ LET request == RequestTable[r]
     IN  IF ~request.has_file
         THEN Continue(t, r, <<>>, <<>>, <<>>, <<>>, "done", NoImage)
         ELSE IF ~initialized
         THEN Continue(t, r, <<>>, <<>>, <<>>, <<>>, "done", NotInitialized)
         ELSE IF ~request.decodable
         THEN Continue(t, r, <<>>, <<>>, <<>>, <<>>, "done", InternalError)
         ELSE \E o \in ScoredTable[[all_cards |-> all_cards,
                                    search_index |-> search_index]][r] :
                LET next == AfterRanking(all_cards, search_index, o)
                IN  Continue(t, r, o.detected_texts, o.card_number_matches,
                             o.card_scores, o.best_candidates, next.pc,
                             next.response)
  /\ UNCHANGED <<server, temp_file, offline>>

\* Image.fromarray(img_np).save("temp_query_card.png")
TieBreakSave(t) ==
  /\ pc[t] = "save"
  /\ temp_file' = req[t]
  /\ pc' = [pc EXCEPT ![t] = "embed"]
  /\ UNCHANGED <<server, locals, offline>>

\* The embedding call on the path: what process_image returns for the file
\* that is there now, None when the file cannot be opened or the model fails.
get_single_image_embedding(file) ==
  IF file = 0 THEN None ELSE RequestTable[file].vec

TieBreakEmbed(t) ==
  /\ pc[t] = "embed"
  /\ query_embedding' = [query_embedding EXCEPT ![t] = get_single_image_embedding(temp_file)]
  /\ pc' = [pc EXCEPT ![t] = "remove"]
  /\ UNCHANGED <<server, offline, temp_file, req, detected_texts, card_number_matches,
                 card_scores, best_candidates, response>>

\* os.remove("temp_query_card.png"), which raises when the file is not there
\* (the handler's except clause answers 500), then the choice among the tied
\* candidates and the response.
TieBreakResolve(t) ==
  /\ pc[t] = "remove"
  /\ IF temp_file = 0
     THEN /\ response' = [response EXCEPT ![t] = InternalError]
          /\ UNCHANGED temp_file
     ELSE /\ temp_file' = 0
          /\ response' = [response EXCEPT ![t] =
               TieBreak(all_cards, search_index, best_candidates[t], query_embedding[t])]
  /\ pc' = [pc EXCEPT ![t] = "done"]
  /\ UNCHANGED <<server, offline, req, detected_texts, card_number_matches, card_scores,
                 best_candidates, query_embedding>>

Next ==
  \E t \in Threads :
    \/ \E r \in Requests : Scan(t, r)
    \/ TieBreakSave(t)
    \/ TieBreakEmbed(t)
    \/ TieBreakResolve(t)

Spec == Init /\ [][Next]_vars

\* One scan at a time: the same handler with a single request in flight.
SeqNext ==
  \/ \E r \in Requests : Scan(1, r)
  \/ TieBreakSave(1)
  \/ TieBreakEmbed(1)
  \/ TieBreakResolve(1)

SeqSpec == Init /\ [][SeqNext]_vars

\* No handler of another thread is in flight.
OthersAtRest(t) == \A u \in Threads \ {t} : pc[u] \in {"idle", "done"}

\* A sequence of scans: the server's threads handle the requests one after
\* the other, each request arriving after the response to the one before.
SerialNext ==
  \E t \in Threads :
    /\ OthersAtRest(t)
    /\ \/ \E r \in Requests : Scan(t, r)
       \/ TieBreakSave(t)
       \/ TieBreakEmbed(t)
       \/ TieBreakResolve(t)

SerialSpec == Init /\ [][SerialNext]_vars

----------------------------------------------------------------------------
\* The offline pipeline: the downloader writes the images, the processor
\* loads the catalog, generate_embeddings embeds the images (with checkpoints,
\* interrupted and rerun), create_search_index writes the index and
\* search_similar_cards queries it.

\* batch_size of generate_embeddings: a checkpoint every BatchSize files
BatchSize == 2
\* safe_name[:50]
SafeNameLimit == 50
\* The greatest top_k of a search
MaxTopK == 3

\* str.isalnum, for the characters of the model's names
isalnum(c) == c \in Digits \cup Lowers \cup Uppers

RECURSIVE rstrip(_)
rstrip(s) ==
  IF s # <<>> /\ s[Len(s)] \in Whitespace
  THEN rstrip(SubSeq(s, 1, Len(s) - 1))
  ELSE s

\* str.replace(' ', '_')
replace_spaces(s) == [i \in DOMAIN s |-> IF s[i] = " " THEN "_" ELSE s[i]]

\* s[:n]
Take(s, n) == SubSeq(s, 1, IF Len(s) < n THEN Len(s) ELSE n)

Suffix(image_type) ==
  IF image_type = "large"
  THEN <<"_", "l", "a", "r", "g", "e", ".", "p", "n", "g">>
  ELSE <<"_", "s", "m", "a", "l", "l", ".", "p", "n", "g">>

\* process_card: the name of the image file the downloader writes
safe_name(card) ==
  Take(replace_spaces(rstrip(
         SelectSeq(card.id \o <<"_">> \o card.name,
                   LAMBDA c : isalnum(c) \/ c \in {" ", "-", "_"}))),
       SafeNameLimit)

image_filename(card, image_type) == safe_name(card) \o Suffix(image_type)

\* load_card_data: the file name the processor expects for a card
local_filename(card) ==
  card.set_id \o <<"-">> \o card.number \o <<"_">> \o replace_spaces(card.name)
    \o Suffix("large")

\* A card of the API: its id, set id, number and name, and what the
\* embedding model returns for its large and small images (NoUrl: the card
\* has no such image, None: the image cannot be embedded).
NoUrl == <<0>>
ApiCard(set_id, number, name, large, small) ==
  [id |-> set_id \o <<"-">> \o number, set_id |-> set_id, number |-> number,
   name |-> name, large |-> large, small |-> small]

Gloom  == ApiCard(<<"b">>, <<"0">>, <<"G", "l", "o", "o", "m">>, None, NoUrl)
Pichu  == ApiCard(<<"b">>, <<"1">>, <<"P", "i", "c", "h", "u">>, <<3, 4>>, NoUrl)
MrMime == ApiCard(<<"b">>, <<"2">>, <<"M", "r", ".", " ", "M", "i", "m", "e">>,
                  <<4, 3>>, NoUrl)
Ditto  == ApiCard(<<"b">>, <<"3">>, <<"D", "i", "t", "t", "o">>, None, <<0, 5>>)
Eevee  == ApiCard(<<"b">>, <<"4">>, <<"E", "e", "v", "e", "e">>, <<-3, 4>>, NoUrl)
Zubat  == ApiCard(<<"b">>, <<"5">>, <<"Z", "u", "b", "a", "t">>, NoUrl, NoUrl)

\* The catalogs the API can return
ApiCatalogs ==
  { <<Pichu, MrMime, Ditto, Eevee>>,
    <<Eevee, Gloom, Zubat, Pichu, MrMime>> }

\* The characters of file names in code point order
CodePoints ==
  <<" ", "'", "-", ".">> \o DigitSeq \o UpperSeq \o <<"_">> \o LowerSeq
Ord(c) == CHOOSE i \in DOMAIN CodePoints : CodePoints[i] = c

\* a < b as Python compares strings
RECURSIVE StrLess(_, _)
StrLess(a, b) ==
  IF b = <<>> THEN FALSE
  ELSE IF a = <<>> THEN TRUE
  ELSE IF Head(a) # Head(b) THEN Ord(Head(a)) < Ord(Head(b))
  ELSE StrLess(Tail(a), Tail(b))

\* sorted(names)
RECURSIVE Sorted(_)
Sorted(names) ==
  IF names = {} THEN <<>>
  ELSE LET first == CHOOSE a \in names : \A b \in names \ {a} : StrLess(a, b)
       IN  <<first>> \o Sorted(names \ {first})

EndsWith(s, suffix) ==
  /\ Len(s) >= Len(suffix)
  /\ SubSeq(s, Len(s) - Len(suffix) + 1, Len(s)) = suffix

\* get_image_files: sorted(images_dir.glob("*_<image_type>.png"))
get_image_files(image_type) ==
  Sorted({f \in DOMAIN images_dir : EndsWith(f, Suffix(image_type))})

\* The keys of card_lookup that load_card_data writes, the later card of a
\* key replacing the earlier
LookupOf(cards) ==
  [f \in {local_filename(cards[k]) : k \in {j \in DOMAIN cards : cards[j].large # NoUrl}} |->
     LET last == CHOOSE k \in DOMAIN cards :
                   /\ cards[k].large # NoUrl
                   /\ local_filename(cards[k]) = f
                   /\ \A j \in DOMAIN cards :
                        (cards[j].large # NoUrl /\ local_filename(cards[j]) = f) => j <= k
     IN  cards[last]]

\* The directory with one more file
WithFile(dir, f, content) ==
  [g \in DOMAIN dir \cup {f} |-> IF g = f THEN content ELSE dir[g]]

\* process_card for one image of a card: the file is written unless it is
\* there, the card has no such image or the download fails.
Downloaded(dir, card, image_type, content, ok) ==
  IF content # NoUrl /\ ok /\ image_filename(card, image_type) \notin DOMAIN dir
  THEN WithFile(dir, image_filename(card, image_type), content)
  ELSE dir

\* The downloader: process_card for every card, in the catalog's order;
\* download_image fails for the large images of the cards in failed.
RECURSIVE DownloadAll(_, _, _)
DownloadAll(cards, failed, dir) ==
  IF cards = <<>> THEN dir
  ELSE LET card == Head(cards)
           large == Downloaded(dir, card, "large", card.large, card.id \notin failed)
       IN  DownloadAll(Tail(cards), failed,
                       Downloaded(large, card, "small", card.small, TRUE))

\* The state before the pipeline runs: the server is not started.
BuildInit ==
  /\ initialized = FALSE
  /\ all_cards = <<>>
  /\ search_index = [metadata |-> <<>>, embeddings |-> <<>>]
  /\ temp_file = 0
  /\ pc = [t \in Threads |-> "idle"]
  /\ req = [t \in Threads |-> 0]
  /\ detected_texts = [t \in Threads |-> <<>>]
  /\ card_number_matches = [t \in Threads |-> <<>>]
  /\ card_scores = [t \in Threads |-> <<>>]
  /\ best_candidates = [t \in Threads |-> <<>>]
  /\ query_embedding = [t \in Threads |-> None]
  /\ response = [t \in Threads |-> NoResponse]
  /\ card_data \in ApiCatalogs
  /\ OfflineAtRest

online == <<initialized, search_index, temp_file, pc, locals>>
memory == <<pos, start_idx, embeddings_list, metadata_list, processed_files>>
disk   == <<checkpoint_file, embeddings_file, metadata_file, index_file>>

\* pokemon_downloader.py: download_all_cards and create_unified_card_database
Download ==
  /\ run = "download"
  /\ \E failed \in SUBSET {card_data[k].id : k \in {j \in DOMAIN card_data : card_data[j].large # NoUrl}} :
       /\ Cardinality(failed) <= 1
       /\ images_dir' = DownloadAll(card_data, failed, images_dir)
  /\ run' = "load"
  /\ UNCHANGED <<online, all_cards, card_data, card_lookup, memory, disk, search>>

\* PokemonCLIPProcessor.__init__: load_card_data
load_card_data ==
  /\ run = "load"
  /\ all_cards' = card_data
  /\ card_lookup' = LookupOf(card_data)
  /\ run' = "ready"
  /\ UNCHANGED <<online, card_data, images_dir, memory, disk, search>>

\* generate_embeddings up to the loop: the image files are listed and the
\* checkpoint is loaded when there is one; a checkpoint that a killed run
\* left half written does not unpickle and the run ends with the exception.
GenerateStart ==
  /\ run = "ready"
  /\ IF get_image_files("large") = <<>>
     THEN /\ run' = "ready"
          /\ UNCHANGED memory
     ELSE IF ~checkpoint_file.exists
     THEN /\ embeddings_list' = <<>>
          /\ metadata_list' = <<>>
          /\ processed_files' = {}
          /\ start_idx' = 0
          /\ pos' = 0
          /\ run' = "loop"
     ELSE IF ~checkpoint_file.readable
     THEN /\ run' = "ready"
          /\ UNCHANGED memory
     ELSE /\ embeddings_list' = checkpoint_file.embeddings
          /\ metadata_list' = checkpoint_file.metadata
          /\ processed_files' = checkpoint_file.processed_files
          /\ start_idx' = Len(checkpoint_file.embeddings)
          /\ pos' = 0
          /\ run' = "loop"
  /\ UNCHANGED <<online, all_cards, card_data, images_dir, card_lookup, disk, search>>

\* process_image of a file of images_dir
process_image(f) == images_dir[f]

\* meta_entry: the file and the id of the card that card_lookup gives
\* (card_lookup.get(name, {}).get('id', ''))
MetaEntry(f) ==
  [filename |-> f,
   card_id |-> IF f \in DOMAIN card_lookup THEN card_lookup[f].id ELSE <<>>]

\* Mutant of Remaining: the slice taken one file too far
RemainingPastOffset ==
  SubSeq(get_image_files("large"), start_idx + 2, Len(get_image_files("large")))

\* The files the loop goes through: image_files[start_idx:]
Remaining == SubSeq(get_image_files("large"), start_idx + 1,
                    Len(get_image_files("large")))

\* One turn of the loop: a processed file is passed over; else the image is
\* embedded and, unless that fails, the lists grow; every BatchSize turns the
\* checkpoint is written.
GenerateStep ==
  /\ run = "loop"
  /\ pos < Len(Remaining)
  /\ LET f == Remaining[pos + 1]
         embedded == f \notin processed_files /\ process_image(f) # None
         e == IF embedded THEN Append(embeddings_list, process_image(f)) ELSE embeddings_list
         m == IF embedded THEN Append(metadata_list, MetaEntry(f)) ELSE metadata_list
         p == IF embedded THEN processed_files \cup {f} ELSE processed_files
     IN  /\ embeddings_list' = e
         /\ metadata_list' = m
         /\ processed_files' = p
         /\ checkpoint_file' =
              IF f \notin processed_files /\ (pos + 1) % BatchSize = 0
              THEN Checkpoint(e, m, p)
              ELSE checkpoint_file
  /\ pos' = pos + 1
  /\ UNCHANGED <<online, all_cards, card_data, images_dir, card_lookup, run,
                 start_idx, embeddings_file, metadata_file, index_file, search>>

\* After the loop: the embeddings file is written, or nothing when no
\* embedding was generated.
SaveEmbeddings ==
  /\ run = "loop"
  /\ pos = Len(Remaining)
  /\ IF embeddings_list # <<>>
     THEN /\ embeddings_file' = EmbeddingsFile(embeddings_list)
          /\ run' = "save metadata"
     ELSE /\ run' = "ready"
          /\ UNCHANGED embeddings_file
  /\ UNCHANGED <<online, all_cards, card_data, images_dir, card_lookup, memory,
                 checkpoint_file, metadata_file, index_file, search>>

SaveMetadata ==
  /\ run = "save metadata"
  /\ metadata_file' = MetadataFile(metadata_list)
  /\ run' = "unlink"
  /\ UNCHANGED <<online, all_cards, card_data, images_dir, card_lookup, memory,
                 checkpoint_file, embeddings_file, index_file, search>>

\* checkpoint_file.unlink() and the return
GenerateEnd ==
  /\ run = "unlink"
  /\ checkpoint_file' = NoFile
  /\ run' = "generated"
  /\ UNCHANGED <<online, all_cards, card_data, images_dir, card_lookup, memory,
                 embeddings_file, metadata_file, index_file, search>>

\* The process is killed while generate_embeddings runs, and what it held in
\* memory is lost; killed while it writes the checkpoint, the checkpoint file
\* is left half written.
Interrupt ==
  /\ run \in {"loop", "save metadata", "unlink"}
  /\ run' = "ready"
  /\ \/ UNCHANGED checkpoint_file
     \/ /\ run = "loop"
        /\ pos < Len(Remaining)
        /\ Remaining[pos + 1] \notin processed_files
        /\ (pos + 1) % BatchSize = 0
        /\ checkpoint_file' = [exists |-> TRUE, readable |-> FALSE]
  /\ pos' = 0
  /\ start_idx' = 0
  /\ embeddings_list' = <<>>
  /\ metadata_list' = <<>>
  /\ processed_files' = {}
  /\ UNCHANGED <<online, all_cards, card_data, images_dir, card_lookup,
                 embeddings_file, metadata_file, index_file, search>>

\* generate_embeddings is run again after it finished.
Rerun ==
  /\ run = "generated"
  /\ run' = "ready"
  /\ UNCHANGED <<online, all_cards, card_data, images_dir, card_lookup, memory,
                 disk, search>>

create_search_index ==
  /\ run = "generated"
  /\ embeddings_file.exists /\ metadata_file.exists
  /\ index_file' = IndexFile(embeddings_file.embeddings, metadata_file.metadata)
  /\ UNCHANGED <<online, all_cards, card_data, images_dir, card_lookup, memory,
                 run, checkpoint_file, embeddings_file, metadata_file, search>>

\* np.dot(embeddings, query_embedding)
DotAll(vectors, q) == [i \in DOMAIN vectors |-> Dot(vectors[i], q)]

\* np.argsort: the orders of the positions with the values ascending (the
\* order of equal values is not fixed)
argsort(values) ==
  { order \in [DOMAIN values -> DOMAIN values] :
      /\ \A i, j \in DOMAIN order : i # j => order[i] # order[j]
      /\ \A i, j \in DOMAIN order : i < j => values[order[i]] <= values[order[j]] }

\* order[::-1]
Reversed(order) == [i \in DOMAIN order |-> order[Len(order) + 1 - i]]

\* Mutant of TopIndices: argsort(similarities)[:top_k], without [::-1]
BottomIndices(order, top_k) == Take(order, top_k)

\* argsort(similarities)[::-1][:top_k]
TopIndices(order, top_k) == Take(Reversed(order), top_k)

\* The query images of a search, by what the embedding model returns
SearchQueries == {None, <<5, 0>>, <<0, 5>>, <<-4, -3>>}

\* search_similar_cards: None without the index file or when the query image
\* cannot be embedded, else the top_k entries by similarity.
search_similar_cards(q, top_k) ==
  /\ run = "generated"
  /\ IF ~index_file.exists \/ q = None
     THEN search' = [called |-> TRUE, query |-> q, top_k |-> top_k,
                     found |-> FALSE, results |-> <<>>]
     ELSE \E order \in argsort(DotAll(index_file.embeddings, q)) :
            LET similarities == DotAll(index_file.embeddings, q)
                top_indices  == TopIndices(order, top_k)
            IN  search' =
                  [called |-> TRUE, query |-> q, top_k |-> top_k, found |-> TRUE,
                   results |->
                     [i \in DOMAIN top_indices |->
                        [similarity |-> similarities[top_indices[i]],
                         metadata |-> index_file.metadata[top_indices[i]]]]]
  /\ UNCHANGED <<online, all_cards, card_data, images_dir, card_lookup, memory,
                 run, disk>>

BuildNext ==
  \/ Download
  \/ load_card_data
  \/ GenerateStart
  \/ GenerateStep
  \/ SaveEmbeddings
  \/ SaveMetadata
  \/ GenerateEnd
  \/ Interrupt
  \/ Rerun
  \/ create_search_index
  \/ \E q \in SearchQueries : \E top_k \in 0..MaxTopK : search_similar_cards(q, top_k)

BuildSpec == BuildInit /\ [][BuildNext]_vars

----------------------------------------------------------------------------
\* Properties

\* Thread t's current or last scan reached the sweep (stage 3): its locals
\* hold that scan's fragments, fractions and scores.
HasScored(t) ==
  /\ req[t] # 0
  /\ initialized
  /\ RequestTable[req[t]].has_file
  /\ RequestTable[req[t]].decodable

\* Thread t's scan has answered.
Answered(t) == pc[t] = "done" /\ HasScored(t)

\* The server's catalog and index, as ScoredTable is keyed
Server == [all_cards |-> all_cards, search_index |-> search_index]

\* A property P(cards, index, request, o) of the scans' scoring, tabulated
\* over the servers and requests of the model and every outcome o of stages
\* 1 to 4: it is evaluated once per request, not once per state.
Tabulated(P(_, _, _, _)) ==
  [s \in Servers |->
     [r \in Requests |->
        [o \in ScoredTable[s][r] |->
           P(s.all_cards, s.search_index, RequestTable[r], o)]]]

\* Thread t's locals after ranking, as the outcomes of ScoredTable are
Locals(t) ==
  [detected_texts |-> detected_texts[t],
   card_number_matches |-> card_number_matches[t],
   card_scores |-> card_scores[t], best_candidates |-> best_candidates[t]]

\* The tabulated property at thread t's scan
AtScan(table, t) == table[Server][req[t]][Locals(t)]

\* The card_id of the index entry a candidate stands for
CandidateId(c) == search_index.metadata[c.index].card_id

\* The candidates of t's scan that no other candidate equals or beats
TopCandidates(t) ==
  { c \in Range(card_scores[t]) :
      \A d \in Range(card_scores[t]) : d # c => d.score < c.score }

(* C1: when exactly one candidate attains the maximum score among the scored
   candidates, the scan answers with the catalog entry of that candidate, the
   candidate's score and match_method "Scoring"; a candidate with a strictly
   lower score is not returned. *)
C1_UniqueBestWins ==
  \A t \in Threads :
    Answered(t) =>
      \A c \in TopCandidates(t) :
        /\ response[t].status = 200
        /\ response[t].metadata # 0
        /\ all_cards[response[t].metadata].id = CandidateId(c)
        /\ response[t].score = c.score
        /\ response[t].match_method = "Scoring"

\* A scan with several candidates and a single best one has answered.
C1_Witness ==
  \E t \in Threads :
    /\ Answered(t)
    /\ Len(card_scores[t]) >= 2
    /\ TopCandidates(t) # {}
    /\ response[t].status = 200

\* The similarity of candidate c's stored vector to the vector q
StoredSimilarity(q, c) == Dot(q, search_index.embeddings[c.index])

(* C2: when two or more candidates tie for the maximum score and the query
   embedding is computed, the scan answers with the tied candidate whose
   stored vector (the index vector at the candidate's index position) is
   most similar to the query vector among the tied candidates, with the tied
   score and match_method "Scoring with Image Tie-break". *)
C2_TieBreakPicksMostSimilar ==
  \A t \in Threads :
    (Answered(t) /\ Len(best_candidates[t]) >= 2 /\ query_embedding[t] # None) =>
      /\ response[t].status = 200
      /\ response[t].match_method = "Scoring with Image Tie-break"
      /\ response[t].score = best_candidates[t][1].score
      /\ \E c \in Range(best_candidates[t]) :
           /\ response[t].metadata # 0
           /\ all_cards[response[t].metadata].id = CandidateId(c)
           /\ \A d \in Range(best_candidates[t]) :
                StoredSimilarity(query_embedding[t], d)
                  <= StoredSimilarity(query_embedding[t], c)

\* No index entry scores above zero: every card an entry names has score 0.
NothingScores(cards, index, request, o) ==
  \A i \in DOMAIN index.metadata : \A k \in DOMAIN cards :
    cards[k].id = index.metadata[i].card_id =>
      CardScore(cards[k], o.detected_texts, o.card_number_matches) = 0

NothingScoresTable == Tabulated(NothingScores)

(* C3: a scan in which no index entry scores above zero ends in the not-found
   response, not in an error and not with a match. *)
C3_NoCandidatesNotFound ==
  \A t \in Threads :
    (Answered(t) /\ AtScan(NothingScoresTable, t)) => response[t] = NotFound

\* A scan of readable text that matches no card has answered.
C3_Witness ==
  \E t \in Threads :
    /\ Answered(t)
    /\ detected_texts[t] # <<>>
    /\ card_scores[t] = <<>>
    /\ response[t] = NotFound

(* C4: when a scan enters the tie-break and the embedding call returns no
   query vector, the scan ends in the not-found response and returns none of
   the tied candidates. *)
C4_EmbeddingFailureNotFound ==
  \A t \in Threads :
    (Answered(t) /\ Len(best_candidates[t]) >= 2 /\ query_embedding[t] = None) =>
      response[t] = NotFound

\* The response of t's scan had it run alone: the one Scan gave, or after a
\* score tie the tie-break on the scan's own image.
AloneResponse(t) ==
  IF HasScored(t) /\ Len(best_candidates[t]) >= 2
  THEN TieBreak(all_cards, search_index, best_candidates[t],
                RequestTable[req[t]].vec)
  ELSE response[t]

(* C5: no shared state is written during a scan, so with scans running
   concurrently every scan answers as it would have alone, and none fails
   because of what another does. *)
C5_ConcurrentScansAsAlone ==
  \A t \in Threads : pc[t] = "done" => response[t] = AloneResponse(t)

\* The response of a scan of request on a server, for one order of the
\* fragments, when the embedding call of the tie-break returns q.
ScanOutcome(cards, index, request, texts, q) ==
  LET o    == Scored(cards, index, request, texts)
      next == AfterRanking(cards, index, o)
  IN  IF next.pc = "done" THEN next.response
      ELSE TieBreak(cards, index, o.best_candidates, q)

\* What an embedding call can return
QueryVectors == {None} \cup {RequestTable[r].vec : r \in Requests}

RemoveAt(seq, i) == SubSeq(seq, 1, i - 1) \o SubSeq(seq, i + 1, Len(seq))

\* The index without its entry i
IndexWithout(index, i) ==
  [metadata   |-> RemoveAt(index.metadata, i),
   embeddings |-> RemoveAt(index.embeddings, i)]

\* The index entries whose card_id is the id of no catalog card
Unresolvable(cards, index) ==
  { i \in DOMAIN index.metadata :
      \A k \in DOMAIN cards : cards[k].id # index.metadata[i].card_id }

\* The scan answers over the index as over the index without an
\* unresolvable entry: the same choice between the direct answer and the
\* tie-break, and the same response whatever the embedding call returns.
SameWithoutUnresolvable(cards, index, request, o) ==
  \A i \in Unresolvable(cards, index) :
    LET without == IndexWithout(index, i)
    IN  /\ Len(Scored(cards, without, request, o.detected_texts).best_candidates)
             = Len(o.best_candidates)
        /\ \A q \in QueryVectors :
             ScanOutcome(cards, without, request, o.detected_texts, q)
               = ScanOutcome(cards, index, request, o.detected_texts, q)

SameWithoutUnresolvableTable == Tabulated(SameWithoutUnresolvable)

(* C6: an index entry whose card_id is the id of no catalog card never
   enters the candidate set, and the scan answers as the same scan does over
   the index without that entry: the same response (outcome kind, card,
   score, match_method) whatever the embedding call returns, and the same
   choice between the direct answer and the tie-break. *)
C6_UnresolvableEntriesSkipped ==
  \A t \in Threads :
    HasScored(t) =>
      /\ \A c \in Range(card_scores[t]) :
           c.index \notin Unresolvable(all_cards, search_index)
      /\ AtScan(SameWithoutUnresolvableTable, t)

\* A scan went into the tie-break with candidates on both sides of an index
\* entry that resolves to no card.
C6_Witness ==
  \E t \in Threads : \E i \in Unresolvable(all_cards, search_index) :
    /\ HasScored(t)
    /\ Len(best_candidates[t]) >= 2
    /\ \E c, d \in Range(best_candidates[t]) : c.index < i /\ i < d.index

\* Some extracted fraction has its numerator equal to the card's number and
\* its denominator equal to the printed total of the card's set, as strings.
NumberMatches(card, matches) ==
  \E m \in Range(matches) :
    m.num = card.number /\ m.total = str_int(card.printedTotal)

\* The number component is 100 for a card some fraction matches, else 0.
NumberRule(cards, index, request, o) ==
  \A k \in DOMAIN cards :
    NumberScore(cards[k], o.card_number_matches)
      = IF NumberMatches(cards[k], o.card_number_matches) THEN 100 ELSE 0

NumberRuleTable == Tabulated(NumberRule)

(* C7: the number-match component of an entry's score is 100 if some
   extracted fraction has its numerator equal, as a string, to the entry's
   number and its denominator equal, as a string, to the printed total of the
   entry's set, and 0 otherwise: never more than 100 however many fractions
   match, and leading zeros count. *)
C7_NumberComponent ==
  \A t \in Threads : HasScored(t) => AtScan(NumberRuleTable, t)

\* A scan read a fraction twice, and a leading zero: one catalog card has the
\* fraction's number, another has it but for the leading zeros.
C7_Witness ==
  \E t \in Threads :
    /\ HasScored(t)
    /\ \E i, j \in DOMAIN card_number_matches[t] :
         i # j /\ card_number_matches[t][i] = card_number_matches[t][j]
    /\ \E k, l \in DOMAIN all_cards :
         /\ NumberMatches(all_cards[k], card_number_matches[t])
         /\ ~NumberMatches(all_cards[l], card_number_matches[t])
         /\ all_cards[l].number = <<"0">> \o all_cards[k].number

\* Some fragment of length >= 4 is in the cleaned name or holds it.
NameMatches(card, texts) ==
  \E f \in Range(texts) :
    /\ Len(f) >= 4
    /\ \/ StrIn(f, clean_text(card.name))
       \/ StrIn(clean_text(card.name), f)

\* The name component is 20 for a card some fragment matches, else 0.
NameRule(cards, index, request, o) ==
  \A k \in DOMAIN cards :
    NameScore(cards[k], o.detected_texts)
      = IF NameMatches(cards[k], o.detected_texts) THEN 20 ELSE 0

NameRuleTable == Tabulated(NameRule)

(* C8: the name-match component of an entry's score is 20 if some fragment of
   length at least 4 is a substring of the entry's cleaned name or holds the
   cleaned name as a substring, and 0 otherwise: never more than 20, and a
   fragment shorter than 4 never gives a name match, even when it is the
   cleaned name. *)
C8_NameComponent ==
  \A t \in Threads : HasScored(t) => AtScan(NameRuleTable, t)

\* A scan read a fragment of three characters that is the cleaned name of a
\* catalog card.
C8_Witness ==
  \E t \in Threads : \E k \in DOMAIN all_cards :
    /\ HasScored(t)
    /\ clean_text(all_cards[k].name) \in Range(detected_texts[t])
    /\ Len(clean_text(all_cards[k].name)) < 4
    /\ NameScore(all_cards[k], detected_texts[t]) = 0

\* The attack's cleaned name is not empty and is in some fragment.
AttackMatches(attack, texts) ==
  /\ clean_text(attack) # <<>>
  /\ \E f \in Range(texts) : StrIn(clean_text(attack), f)

\* The attacks of a card that match
MatchingAttacks(card, texts) ==
  { j \in DOMAIN card.attacks : AttackMatches(card.attacks[j], texts) }

\* Attack names to add to a card: the beginnings of the fragments, behind a
\* character that cleaning removes.
ExtraAttacks(texts) ==
  { <<"'">> \o SubSeq(f, 1, n) : f \in Range(texts), n \in 1..2 }

\* The catalog with attack added to the attacks of card k
WithAttack(cards, k, attack) ==
  [cards EXCEPT ![k].attacks = Append(@, attack)]

\* The attack component is 10 times the number of matching attacks, and one
\* more matching attack on card k adds exactly 10 to the score of the entries
\* of card k and nothing to the others.
AttackRule(cards, index, request, o) ==
  /\ \A k \in DOMAIN cards :
       AttackScore(cards[k], o.detected_texts)
         = 10 * Cardinality(MatchingAttacks(cards[k], o.detected_texts))
  /\ \A k \in DOMAIN cards : \A attack \in ExtraAttacks(o.detected_texts) :
       AttackMatches(attack, o.detected_texts) =>
         \A i \in DOMAIN index.metadata :
           EntryScore(WithAttack(cards, k, attack), index.metadata, i,
                      o.detected_texts, o.card_number_matches)
             = EntryScore(cards, index.metadata, i,
                          o.detected_texts, o.card_number_matches)
               + (IF index.metadata[i].card_id = cards[k].id THEN 10 ELSE 0)

AttackRuleTable == Tabulated(AttackRule)

(* C9: the sub-attribute component of an entry's score is 10 times the number
   of the entry's attacks whose cleaned name is not empty and is a substring
   of some fragment, with no cap; one more matching attack on an entry raises
   that entry's score by exactly 10 and leaves every other entry's score as
   it was. *)
C9_AttackComponent ==
  \A t \in Threads : HasScored(t) => AtScan(AttackRuleTable, t)

\* A scan scored a card with two matching attacks, and there is a matching
\* attack to add.
C9_Witness ==
  \E t \in Threads : \E k \in DOMAIN all_cards :
    /\ HasScored(t)
    /\ Cardinality(MatchingAttacks(all_cards[k], detected_texts[t])) >= 2
    /\ AttackScore(all_cards[k], detected_texts[t]) = 20
    /\ \E c \in Range(card_scores[t]) : CandidateId(c) = all_cards[k].id
    /\ \E attack \in ExtraAttacks(detected_texts[t]) :
         AttackMatches(attack, detected_texts[t])

\* The card whose number and set total the fractions match, when they match
\* exactly one catalog card, the index names that card and no card has a name
\* or attack match; 0 otherwise.
OnlyNumberMatch(cards, index, request, o) ==
  LET hits == { k \in DOMAIN cards :
                  NumberMatches(cards[k], o.card_number_matches) }
  IN  IF /\ Cardinality(hits) = 1
         /\ \E i \in DOMAIN index.metadata : \E k \in hits :
              index.metadata[i].card_id = cards[k].id
         /\ \A k \in DOMAIN cards :
              /\ ~NameMatches(cards[k], o.detected_texts)
              /\ MatchingAttacks(cards[k], o.detected_texts) = {}
      THEN CHOOSE k \in hits : TRUE
      ELSE 0

OnlyNumberMatchTable == Tabulated(OnlyNumberMatch)

(* C10: a scan whose fractions match the number and set total of exactly one
   catalog entry, with no name or attack match for any entry, answers at once
   (not through the tie-break) with that entry, score 100 and match_method
   "Scoring", whatever index names that entry. *)
C10_NumberOnlyWins ==
  \A t \in Threads :
    (HasScored(t) /\ AtScan(OnlyNumberMatchTable, t) # 0) =>
      /\ pc[t] = "done"
      /\ response[t] = Match(AtScan(OnlyNumberMatchTable, t), 100, "Scoring")

\* A scan whose only signal is the number of one card has answered, on a
\* server whose catalog holds another card of that number but for a leading
\* zero.
C10_Witness ==
  \E t \in Threads :
    /\ Answered(t)
    /\ AtScan(OnlyNumberMatchTable, t) # 0
    /\ Len(card_scores[t]) = 1
    /\ response[t].score = 100

\* The responses a request can get as the first scan after start-up: one
\* per order of its fragments, the tie-break on the request's own image.
FirstScanOutcomes(cards, index, request) ==
  { ScanOutcome(cards, index, request, texts, request.vec) :
      texts \in RankedOrders({clean_text(span) : span \in Range(request.ocr)}) }

FirstScanTable ==
  [s \in Servers |->
     [r \in Requests |->
        FirstScanOutcomes(s.all_cards, s.search_index, RequestTable[r])]]

\* The responses the request of thread t can get as the first scan after
\* start-up of the server as it is
FirstScanResponses(t) ==
  IF ~RequestTable[req[t]].has_file THEN {NoImage}
  ELSE IF ~initialized THEN {NotInitialized}
  ELSE IF ~RequestTable[req[t]].decodable THEN {InternalError}
  ELSE FirstScanTable[Server][req[t]]

(* C11: the engine is stateless across requests: in a sequence of scans,
   whatever their outcomes, no step changes the catalog, the search index or
   the loaded models, and every scan answers as its request is answered when
   it is the first scan after start-up. *)
C11_StatelessAcrossScans ==
  /\ [][server' = server]_vars
  /\ [](\A t \in Threads :
          pc[t] = "done" => response[t] \in FirstScanResponses(t))

\* A sequence of scans held a scan that failed on its image, a scan that
\* found nothing and a scan that went through the tie-break; the file of the
\* tie-break is gone.
C11_Witness ==
  /\ temp_file = 0
  /\ \E t, u \in Threads :
       /\ pc[t] = "done" /\ pc[u] = "done"
       /\ response[t] \in {InternalError, NotFound}
       /\ initialized
       /\ response[u].status = 200
       /\ response[u].match_method = "Scoring with Image Tie-break"

\* The outcome kinds of a response: a match document, a not-found result,
\* an internal-error result.
IsMatchDocument(resp) ==
  /\ resp.status = 200
  /\ resp.error = ""
  /\ resp.metadata \in DOMAIN all_cards
  /\ resp.score > 0
  /\ resp.ocr_confirmed
  /\ resp.match_method \in {"Scoring", "Scoring with Image Tie-break"}

IsNotFound(resp) ==
  /\ resp.status = 404
  /\ resp.error = "Could not find a matching card."
  /\ resp.metadata = 0

IsInternalError(resp) ==
  /\ resp.status = 500
  /\ resp.error # ""
  /\ resp.metadata = 0

OutcomeKinds(resp) ==
  {k \in {"match", "not found", "error"} :
     \/ k = "match" /\ IsMatchDocument(resp)
     \/ k = "not found" /\ IsNotFound(resp)
     \/ k = "error" /\ IsInternalError(resp)}

(* C12: every scan of a request that carries an image file ends in exactly
   one of three outcome kinds: a match document (metadata, score,
   ocr_confirmed, match_method), a not-found result or an internal-error
   result; a scan whose image does not decode ends in the error outcome,
   never in not-found or a match. *)
C12_ThreeOutcomeKinds ==
  \A t \in Threads :
    (pc[t] = "done" /\ RequestTable[req[t]].has_file) =>
      /\ Cardinality(OutcomeKinds(response[t])) = 1
      /\ ~RequestTable[req[t]].decodable => OutcomeKinds(response[t]) = {"error"}

\* On a server that loaded its models, a scan of an image that does not
\* decode has answered, and so has a scan that ended in a match or found
\* nothing.
C12_Witness ==
  \E t, u \in Threads :
    /\ initialized
    /\ pc[t] = "done" /\ pc[u] = "done"
    /\ RequestTable[req[t]].has_file /\ ~RequestTable[req[t]].decodable
    /\ response[t] = InternalError
    /\ HasScored(u)
    /\ OutcomeKinds(response[u]) \in {{"match"}, {"not found"}}

\* The tied candidates of t's scan most similar to the query vector q
MostSimilar(t, q) ==
  { c \in Range(best_candidates[t]) :
      \A d \in Range(best_candidates[t]) :
        StoredSimilarity(q, d) <= StoredSimilarity(q, c) }

(* C13: the tied candidates stand in index order (the score sort keeps the
   order of equal scores), and a tie-break that answers with a match answers
   with the first of the tied candidates of maximum cosine similarity to the
   query vector: the one of lowest index position. *)
C13_SimilarityTieFirstInOrder ==
  \A t \in Threads :
    HasScored(t) =>
      /\ \A i, j \in DOMAIN best_candidates[t] :
           i < j => best_candidates[t][i].index < best_candidates[t][j].index
      /\ (pc[t] = "done"
          /\ response[t].match_method = "Scoring with Image Tie-break") =>
           \E c \in MostSimilar(t, query_embedding[t]) :
             /\ \A d \in MostSimilar(t, query_embedding[t]) : c.index <= d.index
             /\ all_cards[response[t].metadata].id = CandidateId(c)

\* A tie-break answered with two tied candidates equally similar to the
\* query vector.
C13_Witness ==
  \E t \in Threads :
    /\ Answered(t)
    /\ response[t].match_method = "Scoring with Image Tie-break"
    /\ Cardinality(MostSimilar(t, query_embedding[t])) >= 2

\* The metadata entries generate_embeddings has written, in memory and in
\* its files
WrittenEntries ==
  Range(metadata_list)
    \cup (IF metadata_file.exists THEN Range(metadata_file.metadata) ELSE {})
    \cup (IF index_file.exists THEN Range(index_file.metadata) ELSE {})

(* C14: every metadata entry that generate_embeddings writes for an embedded
   image file carries a card_id that is the id of a card of the loaded
   catalog (all_cards). *)
C14_IndexIdsResolve ==
  \A m \in WrittenEntries :
    \E k \in DOMAIN all_cards : all_cards[k].id = m.card_id

\* The greatest length of the short texts
MaxTextLen == 3

\* Characters of each kind: letters of both cases, a digit, white space,
\* punctuation
TextAlphabet == {"a", "Z", "7", " ", "!", "_"}

\* Every text of at most MaxTextLen characters of TextAlphabet
ShortTexts == UNION {[1..n -> TextAlphabet] : n \in 0..MaxTextLen}

\* Only lowercase ASCII letters and digits
IsClean(text) == \A i \in DOMAIN text : text[i] \in Lowers \cup Digits

\* clean_text gives a clean text, the empty text for the empty text, and
\* the same text when applied again.
CleanTextLaw(text) ==
  /\ IsClean(clean_text(text))
  /\ text = <<>> => clean_text(text) = <<>>
  /\ clean_text(clean_text(text)) = clean_text(text)

ShortTextsLaw == \A text \in ShortTexts : CleanTextLaw(text)

\* The texts a scan cleans: the OCR spans, the names of the cards and of
\* their attacks
CleanedTexts(cards, request) ==
  Range(request.ocr)
    \cup {cards[k].name : k \in DOMAIN cards}
    \cup UNION {Range(cards[k].attacks) : k \in DOMAIN cards}

CleanTextAtScan(cards, index, request, o) ==
  /\ \A text \in CleanedTexts(cards, request) : CleanTextLaw(text)
  /\ \A fragment \in Range(o.detected_texts) :
       IsClean(fragment) /\ clean_text(fragment) = fragment
  /\ Range(o.detected_texts) = {clean_text(span) : span \in Range(request.ocr)}

CleanTextAtScanTable == Tabulated(CleanTextAtScan)

(* C15: clean_text is total and idempotent: for every text it returns a text
   of lowercase ASCII letters and digits only (the empty text for the empty
   text), and clean_text(clean_text(x)) = clean_text(x); so the fragments of
   a scan are clean and cleaning them again changes nothing. *)
C15_CleanTextIdempotent ==
  /\ ShortTextsLaw
  /\ \A t \in Threads : HasScored(t) => AtScan(CleanTextAtScanTable, t)

\* A scan cleaned a span with capital letters and punctuation into a
\* fragment that differs from it.
C15_Witness ==
  \E t \in Threads :
    HasScored(t) /\ \E span \in Range(RequestTable[req[t]].ocr) :
    /\ \E d \in Range(span) : d \in Uppers
    /\ \E c \in Range(span) : ~IsAlnum(c)
    /\ clean_text(span) \in Range(detected_texts[t])
    /\ clean_text(span) # span

\* The greatest length of the short raw texts
MaxRawLen == 4

\* Every raw text of at most MaxRawLen characters: digits, the slash,
\* white space, a letter
RawTexts == UNION {[1..n -> {"0", "4", "/", " ", "a"}] : n \in 0..MaxRawLen}

AllIn(text, i, j, cls) == \A k \in i..j : text[k] \in cls

\* text[i..j] is an occurrence of digits, optional white space, slash,
\* optional white space, digits, with the slash at position b
OccurrenceAt(text, i, b, j) ==
  \E a \in i..(b - 1) : \E c \in (b + 1)..j :
    /\ AllIn(text, i, a, Digits)
    /\ AllIn(text, a + 1, b - 1, Whitespace)
    /\ text[b] = "/"
    /\ AllIn(text, b + 1, c - 1, Whitespace)
    /\ AllIn(text, c, j, Digits)

Occurrences(text) ==
  { o \in (DOMAIN text) \X (DOMAIN text) \X (DOMAIN text) :
      OccurrenceAt(text, o[1], o[2], o[3]) }

\* The numerator and denominator of the occurrence o: the digit strings as
\* they stand, around the white space and the slash
Fraction(text, o) ==
  LET a == CHOOSE k \in o[1]..(o[2] - 1) :
             AllIn(text, o[1], k, Digits) /\ AllIn(text, k + 1, o[2] - 1, Whitespace)
      c == CHOOSE k \in (o[2] + 1)..o[3] :
             AllIn(text, o[2] + 1, k - 1, Whitespace) /\ AllIn(text, k, o[3], Digits)
  IN  [num |-> SubSeq(text, o[1], a), total |-> SubSeq(text, c, o[3])]

\* The occurrences from position i on that do not overlap, in order of
\* appearance: the leftmost one, at its longest, then those after its end
RECURSIVE NonOverlapping(_, _)
NonOverlapping(text, i) ==
  LET later == {o \in Occurrences(text) : o[1] >= i}
  IN  IF later = {} THEN <<>>
      ELSE LET first == CHOOSE o \in later :
                          \A p \in later :
                            o[1] < p[1] \/ (o[1] = p[1] /\ o[3] >= p[3])
           IN  <<Fraction(text, first)>> \o NonOverlapping(text, first[3] + 1)

Pair(num, total) == [num |-> num, total |-> total]

\* "049/182" yields ("049", "182"); "49 / 182" and "49/ 182" yield
\* ("49", "182")
FractionExamples ==
  /\ findall(<<"0", "4", "9", "/", "1", "8", "2">>)
       = <<Pair(<<"0", "4", "9">>, <<"1", "8", "2">>)>>
  /\ findall(<<"4", "9", " ", "/", " ", "1", "8", "2">>)
       = <<Pair(<<"4", "9">>, <<"1", "8", "2">>)>>
  /\ findall(<<"4", "9", "/", " ", "1", "8", "2">>)
       = <<Pair(<<"4", "9">>, <<"1", "8", "2">>)>>

RawTextsLaw == \A text \in RawTexts : findall(text) = NonOverlapping(text, 1)

FractionsAtScan(cards, index, request, o) ==
  o.card_number_matches = NonOverlapping(join(request.ocr), 1)

FractionsAtScanTable == Tabulated(FractionsAtScan)

(* C16: the fractions a scan extracts from the raw OCR text (the spans
   joined by spaces) are all the non-overlapping occurrences of digits,
   optional white space, slash, optional white space, digits, in order of
   appearance, each the pair of digit strings as they stand, leading zeros
   kept: "049/182" yields ("049", "182"), "49 / 182" and "49/ 182" yield
   ("49", "182"). *)
C16_FractionExtraction ==
  /\ FractionExamples
  /\ RawTextsLaw
  /\ \A t \in Threads : HasScored(t) => AtScan(FractionsAtScanTable, t)

\* A scan extracted three fractions, in order: one with a leading zero and
\* two written with white space around the slash.
C16_Witness ==
  \E t \in Threads :
    /\ HasScored(t)
    /\ card_number_matches[t]
         = <<Pair(<<"0", "4", "9">>, <<"1", "8", "2">>),
             Pair(<<"4", "9">>, <<"1", "8", "2">>),
             Pair(<<"4", "9">>, <<"1", "8", "2">>)>>

\* The results are entries of the index, each once: result j is the entry at
\* position at[j], with its dot product with the query vector
ResultsAt(at) ==
  /\ \A i, j \in DOMAIN at : i # j => at[i] # at[j]
  /\ \A j \in DOMAIN at :
       /\ search.results[j].metadata = index_file.metadata[at[j]]
       /\ search.results[j].similarity
            = Dot(index_file.embeddings[at[j]], search.query)
  /\ \A i \in DOMAIN index_file.embeddings : \A j \in DOMAIN at :
       i \notin Range(at) =>
         Dot(index_file.embeddings[i], search.query) <= search.results[j].similarity

Min(a, b) == IF a < b THEN a ELSE b

(* C17: search_similar_cards, with the index file there and the query image
   embedded, returns min(top_k, number of index entries) results, each an
   index entry's metadata with the dot product of its vector and the query
   vector, in order of non-increasing similarity, and no entry left out is
   more similar to the query than a returned one. *)
C17_TopKSimilar ==
  (search.called /\ search.found) =>
    /\ Len(search.results) = Min(search.top_k, Len(index_file.metadata))
    /\ \A i, j \in DOMAIN search.results :
         i < j => search.results[i].similarity >= search.results[j].similarity
    /\ \E at \in [DOMAIN search.results -> DOMAIN index_file.metadata] :
         ResultsAt(at)

\* A search returned two results or more and left out an entry of the index.
C17_Witness ==
  /\ search.called /\ search.found
  /\ Len(search.results) >= 2
  /\ Len(search.results) < Len(index_file.metadata)
  /\ search.results[1].similarity > search.results[2].similarity

\* Whatever order the equal-length fragments come in, the scan scores the
\* same candidates and answers the same, for every query vector.
OrderIndependent(cards, index, request, o) ==
  \A texts \in RankedOrders(Range(o.detected_texts)) :
    /\ Scored(cards, index, request, texts).card_scores = o.card_scores
    /\ \A q \in QueryVectors :
         ScanOutcome(cards, index, request, texts, q)
           = ScanOutcome(cards, index, request, o.detected_texts, q)

OrderIndependentTable == Tabulated(OrderIndependent)

(* C18: the scan decision is deterministic: scans with the same set of
   cleaned fragments, raw OCR text, index, catalog and query vector give the
   same outcome (outcome kind, card, score, match_method), whatever the order
   in which the fragments of equal length come out of the set. *)
C18_FragmentOrderIrrelevant ==
  \A t \in Threads : HasScored(t) => AtScan(OrderIndependentTable, t)

\* A scan had two fragments of one length, and a card with an attack in the
\* second of them and not in the first got a score.
C18_Witness ==
  \E t \in Threads :
    /\ HasScored(t)
    /\ Len(detected_texts[t]) >= 2
    /\ Len(detected_texts[t][1]) = Len(detected_texts[t][2])
    /\ \E c \in Range(card_scores[t]) : \E k \in DOMAIN all_cards :
         /\ all_cards[k].id = CandidateId(c)
         /\ \E a \in Range(all_cards[k].attacks) :
              /\ clean_text(a) # <<>>
              /\ StrIn(clean_text(a), detected_texts[t][2])
              /\ ~StrIn(clean_text(a), detected_texts[t][1])

\* The image files whose embedding can be computed
Embeddable ==
  {f \in Range(get_image_files("large")) : process_image(f) # None}

(* C19: when generate_embeddings finishes, after any interruptions and
   reruns over the same image files, the embeddings and the metadata it
   wrote have one length, position i of both is of one image file, and every
   image file whose embedding can be computed is there exactly once: none
   twice, none passed over by the resume offset. *)
C19_ResumeKeepsAlignment ==
  run = "generated" =>
    /\ embeddings_file.exists /\ metadata_file.exists
    /\ Len(embeddings_file.embeddings) = Len(metadata_file.metadata)
    /\ \A i \in DOMAIN metadata_file.metadata :
         /\ metadata_file.metadata[i].filename \in Embeddable
         /\ embeddings_file.embeddings[i]
              = process_image(metadata_file.metadata[i].filename)
    /\ \A f \in Embeddable :
         Cardinality({i \in DOMAIN metadata_file.metadata :
                        metadata_file.metadata[i].filename = f}) = 1

\* generate_embeddings finished a run that resumed from a checkpoint written
\* after an image that could not be embedded: the offset is less than the
\* number of files gone through, and the run embedded files after it.
C19_Witness ==
  /\ run = "generated"
  /\ start_idx > 0
  /\ process_image(get_image_files("large")[1]) = None
  /\ Len(embeddings_file.embeddings) > start_idx

\* The index entries that resolve to a card whose cleaned name is empty
EmptyNamed(cards, index) ==
  { i \in DOMAIN index.metadata :
      LET k == get_full_card_details(index.metadata[i].card_id, cards)
      IN  k # 0 /\ clean_text(cards[k].name) = <<>> }

\* Each such entry has the 20 of the name check, and is a candidate with a
\* score of 20 or more, once a fragment of four or more characters was read.
EmptyNameBonus(cards, index, request, o) ==
  (\E f \in Range(o.detected_texts) : Len(f) >= 4) =>
    \A i \in EmptyNamed(cards, index) :
      LET k == get_full_card_details(index.metadata[i].card_id, cards)
      IN  /\ NameScore(cards[k], o.detected_texts) = 20
          /\ \E c \in Range(o.card_scores) : c.index = i /\ c.score >= 20

EmptyNameBonusTable == Tabulated(EmptyNameBonus)

(* C20: an index entry that resolves to a catalog card whose name is absent
   or cleans to the empty string has the +20 of the name check in every scan
   that read a fragment of four or more characters, the empty name being a
   substring of any fragment: it is a candidate with a score of at least 20
   whatever the card shows, as the name check does not test that the cleaned
   name is not empty. *)
C20_EmptyNameAlwaysMatches ==
  \A t \in Threads : HasScored(t) => AtScan(EmptyNameBonusTable, t)

\* A scan made a candidate, with the 20 of the name check alone, of the card
\* whose name cleans to the empty string: no fraction and no attack of that
\* card was read.
C20_Witness ==
  \E t \in Threads :
    /\ HasScored(t)
    /\ \E i \in EmptyNamed(all_cards, search_index) :
         LET card == all_cards[get_full_card_details(CandidateId([index |-> i]),
                                                     all_cards)]
         IN  /\ NumberScore(card, card_number_matches[t]) = 0
             /\ AttackScore(card, detected_texts[t]) = 0
             /\ [score |-> 20, index |-> i] \in Range(card_scores[t])

====
